---- MODULE Spec2Model ----
(***************************************************************************)
(* Model of search/views.py (edx-search): the request handlers discovery, *)
(* program_discovery, auto_suggestion and facets together with the helpers *)
(* they call (_process_pagination_values, _get_field_values,               *)
(* _get_selected_filter, update_facets, get_discovery_results,             *)
(* is_archived_courserun, rewrite_org).                                    *)
(*                                                                         *)
(* A request is one run of one handler.  The upstream catalog service      *)
(* (get_edx_api_data) is the environment: each call returns an empty       *)
(* response, a response drawn from a bounded set, or raises.               *)
(***************************************************************************)
EXTENDS Integers, Sequences, FiniteSets, TLC

VARIABLES
    handler,        \* the entrypoint serving the request
    pc,             \* position of the handler in its code
    POST,           \* request.POST: key -> list of submitted values
    serviceUser,    \* TRUE iff User.objects.get(username=service_username) finds a user
    now,            \* datetime.now() during the request: instant 1 of 0..MaxTime
    size,           \* local: page size
    from_,          \* local: offset
    page,           \* local: page number
    resource_id,    \* local: resource scope of the discovery request
    querystring,    \* local: the dict handed to get_discovery_results
    lst_resources,  \* scopes get_discovery_results still has to query
    lst_results,    \* list of {res: response} gathered by get_discovery_results
    calls,          \* upstream query calls issued so far (resource, querystring)
    FACET_TEMPLATE, \* the request's facet template
    DATA_RESPONSE,  \* the request's response body under construction
    response,       \* what the client gets: an HttpResponse or a propagated exception
    field_dictionary, \* _get_field_values: the dict under construction
    field_keys,     \* _get_field_values: the keys of request.POST still to traverse
    merged,         \* the upstream facet tables update_facets has merged so far
    templates       \* the facet template as it was before each of those merges

vars == <<handler, pc, POST, serviceUser, now, size, from_, page, resource_id,
          querystring, lst_resources, lst_results, calls, FACET_TEMPLATE,
          DATA_RESPONSE, response, field_dictionary, field_keys, merged, templates>>

----------------------------------------------------------------------------
(* Bounds *)

MaxPageIndex == 1      \* page_index values 0..MaxPageIndex
MaxResults == 1        \* records per upstream response
MaxCount == 1          \* reported hit counts 0..MaxCount
MaxTime == 1           \* 'end' timestamps are the instants 0..MaxTime

(* Program constants *)

SEARCH_MAX_PAGE_SIZE == 100

----------------------------------------------------------------------------
(* Python helpers *)

\* the empty dict
EmptyDict == <<>>

\* dict.update(other)
DictUpdate(d, other) ==
    [k \in (DOMAIN d) \cup (DOMAIN other) |->
        IF k \in DOMAIN other THEN other[k] ELSE d[k]]

\* list[-1]: QueryDict's request.POST[key] is the last submitted value
Last(s) == s[Len(s)]

\* The text of a POST value that is read with int(): a decimal numeral of
\* value n, or text that is no numeral.
Numeral(n) == [num |-> TRUE, n |-> n]
NotANumeral == [num |-> FALSE, n |-> 0]

\* int(text): the value, or ValueError
int(text) == IF text.num THEN [raised |-> FALSE, n |-> text.n]
             ELSE [raised |-> TRUE, n |-> 0]

----------------------------------------------------------------------------
(* _process_pagination_values *)

ValueError == [raised |-> TRUE, exc |-> "ValueError", size |-> 0, from_ |-> 0, page |-> 0]

Paged(s, f, p) == [raised |-> FALSE, exc |-> "", size |-> s, from_ |-> f, page |-> p]

process_pagination_values(post) ==
    IF "page_size" \in DOMAIN post
    THEN LET s == int(Last(post["page_size"])) IN
         IF s.raised THEN ValueError
         ELSE IF ~(0 < s.n /\ s.n <= SEARCH_MAX_PAGE_SIZE) THEN ValueError
         ELSE IF "page_index" \in DOMAIN post
              THEN LET p == int(Last(post["page_index"])) IN
                   IF p.raised THEN ValueError
                   ELSE Paged(s.n, p.n * s.n, p.n)
              ELSE Paged(s.n, 0, 0)
    ELSE Paged(20, 0, 0)

----------------------------------------------------------------------------
(* The request *)

None == [py |-> "None"]

\* request.POST.get(key, default)
PostGet(post, key, default) ==
    IF key \in DOMAIN post THEN Last(post[key]) ELSE default

\* request.POST.getlist(key, default)
PostGetList(post, key, default) ==
    IF key \in DOMAIN post THEN post[key] ELSE default

\* one optional POST key: absent, or present with one of the values
Optional(key, values) == {EmptyDict} \cup {key :> <<v>> : v \in values}

PageSizeTexts == {Numeral(n) : n \in {-1, 0, 2, SEARCH_MAX_PAGE_SIZE,
                                      SEARCH_MAX_PAGE_SIZE + 1}} \cup {NotANumeral}

PageIndexTexts == {Numeral(n) : n \in 0..MaxPageIndex}

ResourceIds == {"all", "programs", "course_runs", "bogus"}

\* the three filter lists of _get_selected_filter: none given, or all given
FilterLists ==
    {EmptyDict,
     ("program_types[]" :> <<"Masters">>) @@ ("seat_types[]" :> <<"verified">>)
        @@ ("organizations[]" :> <<"edX", "MITx">>)}

PagingRequests ==
    {a @@ b : a \in Optional("page_size", PageSizeTexts),
              b \in Optional("page_index", PageIndexTexts)}

DiscoveryRequests ==
    {a @@ b @@ c @@ ("search_string" :> <<"bio">>) :
        a \in PagingRequests,
        b \in Optional("resource_id", ResourceIds),
        c \in FilterLists}

----------------------------------------------------------------------------
(* The upstream catalog service *)

\* a course run's 'end': absent/None, a timestamp in the format
\* %Y-%m-%dT%H:%M:%SZ standing for instant t, or text in another format
EndNone == [kind |-> "none", t |-> 0]
EndAt(t) == [kind |-> "ts", t |-> t]
EndBad == [kind |-> "bad", t |-> 0]
Ends == {EndNone, EndBad} \cup {EndAt(t) : t \in 0..MaxTime}

\* an organization string "edX: edX Inc " as its characters
OrgString == <<"e", ":", " ", "I", " ">>

CourseRun(i, end) ==
    [content_type |-> "courserun", key |-> <<"course_run", i>>, title |-> "bio",
     image_url |-> "img", organizations |-> <<OrgString>>, start |-> "start",
     number |-> "101", end |-> end]

ProgramStatuses == {"active", "retired"}

Program(i, status) ==
    [content_type |-> "program", uuid |-> <<"program", i>>, title |-> "bio",
     card_image_url |-> "img", course_count |-> 2, program_types |-> <<"Masters">>,
     type |-> "Masters", authoring_organizations |-> <<[name |-> "edX"]>>,
     status |-> status]

\* lists of at most MaxResults records; a record's key is its position
RECURSIVE CourseRunLists(_)
CourseRunLists(n) ==
    IF n = 0 THEN {<<>>}
    ELSE CourseRunLists(n - 1) \cup
         {Append(l, CourseRun(n, e)) : l \in {x \in CourseRunLists(n - 1) : Len(x) = n - 1},
                                       e \in Ends}

RECURSIVE ProgramLists(_)
ProgramLists(n) ==
    IF n = 0 THEN {<<>>}
    ELSE ProgramLists(n - 1) \cup
         {Append(l, Program(n, s)) : l \in {x \in ProgramLists(n - 1) : Len(x) = n - 1},
                                     s \in ProgramStatuses}

\* facet tables ('fields') of a response to discovery
SomeFields ==
    {EmptyDict,
     ("program_type" :> <<[text |-> "Masters", count |-> 1],
                          [text |-> "MicroMasters", count |-> 1]>>)
        @@ ("status" :> <<[text |-> "active", count |-> 1]>>)
        @@ ("language" :> <<[text |-> "en", count |-> 1]>>)}

\* facet tables of a response to program_discovery, which reads fields['type']
ProgramFields ==
    SomeFields \cup {("type" :> <<[text |-> "Masters", count |-> 1],
                                  [text |-> "MicroMasters", count |-> 1]>>)}

\* get_edx_api_data's outcomes: [] (nothing), a response, or an exception
EmptyResponse ==
    [kind |-> "empty", objects |-> [count |-> 0, results |-> <<>>], fields |-> EmptyDict]

UpstreamRaises ==
    [kind |-> "raise", objects |-> [count |-> 0, results |-> <<>>], fields |-> EmptyDict]

Responses(recordLists, tables) ==
    {[kind |-> "data", objects |-> [count |-> c, results |-> l], fields |-> f] :
        c \in 0..MaxCount, l \in recordLists, f \in tables}

UpstreamOutcomes(res, tables) ==
    {EmptyResponse, UpstreamRaises} \cup
    Responses(IF res = "course_runs" THEN CourseRunLists(MaxResults)
              ELSE ProgramLists(MaxResults), tables)

----------------------------------------------------------------------------
(* What the client gets *)

NoResponse == [kind |-> "none", status |-> 0, body |-> <<>>]

HttpResponse(body, status) == [kind |-> "http", status |-> status, body |-> body]

\* an exception no handler caught leaves the view
Propagates(exc) == [kind |-> "exception", status |-> 0, body |-> exc]

----------------------------------------------------------------------------
(* _get_selected_filter *)

get_selected_filter(post, resource) ==
    LET res == IF resource = "" THEN PostGet(post, "resource_id", "all") ELSE resource
        program_types == PostGetList(post, "program_types[]", <<>>)
        seat_types == PostGetList(post, "seat_types[]", <<>>)
        organizations == PostGetList(post, "organizations[]", <<>>)
        selected_filter == [seat_types |-> seat_types, program_types |-> program_types]
        with_authoring ==
            IF res \in {"all", "programs"}
            THEN DictUpdate(selected_filter, [authoring_organizations |-> organizations])
            ELSE selected_filter
    IN  IF res = "course_runs"
        THEN DictUpdate(with_authoring, [organizations |-> organizations])
        ELSE with_authoring

----------------------------------------------------------------------------
(* update_facets *)

\* the facet template of get_discovery_facet(): facet name -> term -> count,
\* every known term seeded at 0
get_discovery_facet ==
    [program_type |-> ("Masters" :> 0) @@ ("Professional Certificate" :> 0),
     status |-> ("active" :> 0)]

\* dict.get(key, default)
DictGet(d, key, default) == IF key \in DOMAIN d THEN d[key] ELSE default

\* a variant of the inner loop that stores a line's count without adding the
\* count the template holds
RECURSIVE FacetLinesOverwrite(_, _, _)
FacetLinesOverwrite(data_facets, temp_facets, dict) ==
    IF data_facets = <<>> THEN dict
    ELSE FacetLinesOverwrite(Tail(data_facets), temp_facets,
            DictUpdate(dict, Head(data_facets).text :> Head(data_facets).count))

\* the inner loop: the dict built from the lines of one facet
RECURSIVE FacetLines(_, _, _)
FacetLines(data_facets, temp_facets, dict) ==
    IF data_facets = <<>> THEN dict
    ELSE LET line == Head(data_facets)
             entry == IF DictGet(temp_facets, line.text, 0) # 0
                      THEN line.text :> (line.count + temp_facets[line.text])
                      ELSE line.text :> line.count
         IN  FacetLines(Tail(data_facets), temp_facets, DictUpdate(dict, entry))

\* a variant that assigns the built dict to the facet instead of updating the
\* facet with it
update_facets_assign(res_facets, facets_template) ==
    [key \in DOMAIN facets_template |->
        FacetLines(DictGet(res_facets, key, <<>>), facets_template[key], EmptyDict)]

update_facets(res_facets, facets_template) ==
    [key \in DOMAIN facets_template |->
        DictUpdate(facets_template[key],
                   FacetLines(DictGet(res_facets, key, <<>>), facets_template[key],
                              EmptyDict))]

----------------------------------------------------------------------------
(* rewrite_org *)

\* str.split(':'): the pieces between the colons
RECURSIVE SplitColon(_, _)
SplitColon(str, piece) ==
    IF str = <<>> THEN <<piece>>
    ELSE IF Head(str) = ":" THEN <<piece>> \o SplitColon(Tail(str), <<>>)
    ELSE SplitColon(Tail(str), Append(piece, Head(str)))

\* str.strip()
RECURSIVE Strip(_)
Strip(str) ==
    IF str = <<>> THEN str
    ELSE IF Head(str) = " " THEN Strip(Tail(str))
    ELSE IF Last(str) = " " THEN Strip(SubSeq(str, 1, Len(str) - 1))
    ELSE str

rewrite_org(lst_org) ==
    [i \in 1..Len(lst_org) |-> Strip(SplitColon(lst_org[i], <<>>)[2])]

----------------------------------------------------------------------------
(* is_archived_courserun *)

\* datetime.strptime(text, '%Y-%m-%dT%H:%M:%SZ'): the instant, or ValueError
strptime(end) == IF end.kind = "ts" THEN [raised |-> FALSE, t |-> end.t]
                 ELSE [raised |-> TRUE, t |-> 0]

is_archived_courserun(courserun, clock) ==
    IF courserun.end.kind # "none"
    THEN LET parsed == strptime(courserun.end) IN
         [raised |-> parsed.raised, value |-> ~parsed.raised /\ parsed.t < clock]
    ELSE [raised |-> FALSE, value |-> FALSE]

----------------------------------------------------------------------------
(* discovery *)

\* the scopes queried for 'all', in this order
FanOut == <<"course_runs", "programs">>

RESULT_TEMPLATE ==
    [content_type |-> "", title |-> "", program_types |-> "", id |-> "",
     image_url |-> "", org |-> <<>>, course_count |-> 0, start |-> "", number |-> ""]

InitialDataResponse(template) ==
    [facets |-> template, program_results |-> <<>>, course_results |-> <<>>,
     course_count |-> 0, program_count |-> 0]

\* the body of the loop over a response's records: the unified record
DiscoveryRecord(record) ==
    LET temp == [RESULT_TEMPLATE EXCEPT !.title = record.title,
                                        !.content_type = record.content_type]
    IN  IF record.content_type = "program"
        THEN [temp EXCEPT !.id = record.uuid,
                          !.image_url = record.card_image_url,
                          !.course_count = record.course_count,
                          !.program_types = record.program_types,
                          !.org = IF record.authoring_organizations # <<>>
                                  THEN [i \in 1..Len(record.authoring_organizations) |->
                                            record.authoring_organizations[i].name]
                                  ELSE @]
        ELSE IF record.content_type = "courserun"
        THEN [temp EXCEPT !.id = record.key,
                          !.image_url = record.image_url,
                          !.org = rewrite_org(record.organizations),
                          !.start = record.start,
                          !.number = record.number]
        ELSE temp

\* the loop over a response's records: each is appended to its scope's list,
\* and the scope's count is stored with it
RECURSIVE DiscoveryRecords(_, _, _, _)
DiscoveryRecords(results, count, res, data) ==
    IF results = <<>> THEN data
    ELSE LET temp == DiscoveryRecord(Head(results))
             course == IF res = "course_runs"
                       THEN [data EXCEPT !.course_results = Append(@, temp),
                                         !.course_count = count]
                       ELSE data
             both == IF res = "programs"
                     THEN [course EXCEPT !.program_results = Append(@, temp),
                                         !.program_count = count]
                     ELSE course
         IN  DiscoveryRecords(Tail(results), count, res, both)

\* size, from_, page = _process_pagination_values(request); page += 1
DiscoveryPaginate ==
    /\ handler = "discovery" /\ pc = "start"
    /\ LET paged == process_pagination_values(POST) IN
       IF paged.raised
       THEN /\ response' = Propagates(paged.exc)
            /\ pc' = "done"
            /\ UNCHANGED <<size, from_, page>>
       ELSE /\ size' = paged.size
            /\ from_' = paged.from_
            /\ page' = paged.page + 1
            /\ pc' = "api"
            /\ UNCHANGED response
    /\ UNCHANGED <<handler, POST, serviceUser, now, resource_id, querystring,
                   lst_resources, lst_results, calls, FACET_TEMPLATE, DATA_RESPONSE,
                   field_dictionary, field_keys, merged, templates>>

\* get_catalog_integration_api.  Without the service user it raises
\* User.DoesNotExist before 'username' is assigned; the except clause formats
\* its log message with 'username' and so raises UnboundLocalError itself.
DiscoveryGetApi ==
    /\ handler = "discovery" /\ pc = "api"
    /\ IF serviceUser
       THEN /\ pc' = "scope"
            /\ UNCHANGED response
       ELSE /\ response' = Propagates("UnboundLocalError")
            /\ pc' = "done"
    /\ UNCHANGED <<handler, POST, serviceUser, now, size, from_, page, resource_id,
                   querystring, lst_resources, lst_results, calls, FACET_TEMPLATE,
                   DATA_RESPONSE, field_dictionary, field_keys, merged, templates>>

\* the scope check, the querystring, and the head of get_discovery_results
DiscoveryScope ==
    /\ handler = "discovery" /\ pc = "scope"
    /\ LET search_term == PostGet(POST, "search_string", None)
           res == PostGet(POST, "resource_id", "all")
       IN  /\ resource_id' = res
           /\ IF res \notin {"all", "programs", "course_runs"}
              THEN /\ response' = HttpResponse(EmptyDict, 404)
                   /\ pc' = "done"
                   /\ UNCHANGED <<querystring, lst_resources>>
              ELSE /\ querystring' = [page |-> page, page_size |-> size,
                                      q |-> search_term, is_archived |-> "false"]
                   /\ lst_resources' = IF res = "all" THEN FanOut ELSE <<res>>
                   /\ pc' = "query"
                   /\ UNCHANGED response
    /\ UNCHANGED <<handler, POST, serviceUser, now, size, from_, page, lst_results,
                   calls, FACET_TEMPLATE, DATA_RESPONSE, field_dictionary, field_keys,
                   merged, templates>>

\* get_discovery_results: one turn of the loop over lst_resources
DiscoveryQuery ==
    /\ handler = "discovery" /\ pc = "query"
    /\ LET res == Head(lst_resources)
           qs == IF res = "programs" /\ resource_id = "all"
                 THEN [querystring EXCEPT !.page_size = 4]
                 ELSE querystring
           selected_filter == DictUpdate(get_selected_filter(POST, res), qs)
       IN  \E outcome \in UpstreamOutcomes(res, SomeFields) :
              /\ querystring' = qs
              /\ calls' = Append(calls, [resource_id |-> <<res, "/facets">>,
                                         querystring |-> selected_filter,
                                         response |-> outcome])
              /\ IF outcome.kind = "raise"
                 THEN /\ response' = Propagates("Exception")
                      /\ pc' = "done"
                      /\ UNCHANGED <<lst_resources, lst_results>>
                 ELSE /\ lst_results' = IF outcome.kind # "empty"
                                        THEN Append(lst_results,
                                                    [res |-> res, response |-> outcome])
                                        ELSE lst_results
                      /\ lst_resources' = Tail(lst_resources)
                      /\ pc' = IF Tail(lst_resources) = <<>> THEN "process" ELSE "query"
                      /\ UNCHANGED response
    /\ UNCHANGED <<handler, POST, serviceUser, now, size, from_, page, resource_id,
                   FACET_TEMPLATE, DATA_RESPONSE, field_dictionary, field_keys,
                   merged, templates>>

\* one turn of the loop over lst_results
DiscoveryProcess ==
    /\ handler = "discovery" /\ pc = "process" /\ lst_results # <<>>
    /\ LET res == Head(lst_results).res
           reply == Head(lst_results).response
           facets_ == update_facets(reply.fields, FACET_TEMPLATE)
           data == DiscoveryRecords(reply.objects.results, reply.objects.count, res,
                                    DATA_RESPONSE)
       IN  /\ resource_id' = res
           /\ FACET_TEMPLATE' = facets_
           /\ DATA_RESPONSE' = [data EXCEPT !.facets = facets_]
           /\ merged' = Append(merged, reply.fields)
           /\ templates' = Append(templates, FACET_TEMPLATE)
    /\ lst_results' = Tail(lst_results)
    /\ UNCHANGED <<handler, pc, POST, serviceUser, now, size, from_, page, querystring,
                   lst_resources, calls, response, field_dictionary, field_keys>>

\* return HttpResponse(json.dumps(DATA_RESPONSE), status=200)
DiscoveryRespond ==
    /\ handler = "discovery" /\ pc = "process" /\ lst_results = <<>>
    /\ response' = HttpResponse(DATA_RESPONSE, 200)
    /\ pc' = "done"
    /\ UNCHANGED <<handler, POST, serviceUser, now, size, from_, page, resource_id,
                   querystring, lst_resources, lst_results, calls, FACET_TEMPLATE,
                   DATA_RESPONSE, field_dictionary, field_keys, merged, templates>>

----------------------------------------------------------------------------
(* program_discovery *)

ProgramRequests ==
    {a @@ b @@ ("search_string" :> <<"bio">>) :
        a \in PagingRequests,
        b \in {EmptyDict,
               ("status[]" :> <<"active">>) @@ ("program_type[]" :> <<"Masters">>)}}

\* _get_program_facets
get_program_facets(post) ==
    LET status == PostGetList(post, "status[]", <<>>)
        program_type == PostGetList(post, "program_type[]", <<>>)
    IN  [i \in 1..Len(status) |-> <<"status_exact", status[i]>>] \o
        [i \in 1..Len(program_type) |-> <<"type_exact", program_type[i]>>]

result_templates ==
    [modes |-> <<>>, language |-> "en", course |-> "", number |-> "",
     content |-> [display_name |-> "No data"], start |-> "", image_url |-> "",
     org |-> "", id |-> "", programtype |-> "", course_count |-> 0]

\* the loop over the programs of the response: only active programs are kept
RECURSIVE ProgramRecords(_)
ProgramRecords(programs) ==
    IF programs = <<>> THEN <<>>
    ELSE LET record == Head(programs)
             temp == [result_templates EXCEPT
                        !.course = record.title,
                        !.image_url = IF record.card_image_url # "null"
                                      THEN record.card_image_url ELSE @,
                        !.org = IF record.authoring_organizations # <<>>
                                THEN record.authoring_organizations[1].name ELSE @,
                        !.content = [display_name |-> record.title],
                        !.id = record.uuid,
                        !.programtype = record.type,
                        !.course_count = record.course_count]
         IN  (IF record.status = "active" THEN <<temp>> ELSE <<>>) \o
             ProgramRecords(Tail(programs))

\* type_data: the dict of the lines of fields['type']
RECURSIVE TypeData(_)
TypeData(lines) ==
    IF lines = <<>> THEN EmptyDict
    ELSE DictUpdate((Head(lines).text :> Head(lines).count), TypeData(Tail(lines)))

\* what the view does once the upstream has answered
ProgramDiscoveryOutcome(outcome) ==
    LET data == [results |-> <<>>, facets |-> EmptyDict, total |-> 0] IN
    IF outcome.kind = "raise" THEN Propagates("Exception")
    ELSE IF outcome.kind = "empty" THEN HttpResponse(data, 200)
    ELSE IF outcome.fields = EmptyDict THEN Propagates("UnboundLocalError")
    ELSE IF "type" \notin DOMAIN outcome.fields THEN Propagates("KeyError")
    ELSE HttpResponse(
            [results |-> ProgramRecords(outcome.objects.results),
             facets |-> [program_type |-> [terms |-> TypeData(outcome.fields["type"])]],
             total |-> outcome.objects.count], 200)

program_discovery ==
    /\ handler = "program_discovery" /\ pc = "start"
    /\ pc' = "done"
    /\ LET paged == process_pagination_values(POST) IN
       IF paged.raised
       THEN /\ response' = Propagates(paged.exc)
            /\ UNCHANGED <<size, from_, page, calls>>
       ELSE /\ size' = paged.size
            /\ from_' = paged.from_
            /\ page' = paged.page + 1
            /\ IF ~serviceUser
               THEN \* the except clause reads 'username', which is not bound
                    /\ response' = Propagates("UnboundLocalError")
                    /\ UNCHANGED calls
               ELSE \E outcome \in UpstreamOutcomes("programs", ProgramFields) :
                       /\ calls' = Append(calls,
                            [resource_id |-> <<"programs", "/facets">>,
                             querystring |->
                                [page |-> paged.page + 1, page_size |-> paged.size,
                                 selected_facets |-> get_program_facets(POST),
                                 q |-> PostGet(POST, "search_string", None)],
                             response |-> outcome])
                       /\ response' = ProgramDiscoveryOutcome(outcome)
    /\ UNCHANGED <<handler, POST, serviceUser, now, resource_id, querystring,
                   lst_resources, lst_results, FACET_TEMPLATE, DATA_RESPONSE,
                   field_dictionary, field_keys, merged, templates>>

----------------------------------------------------------------------------
(* auto_suggestion *)

MaxSuggestions == 5    \* items of a suggestion response

CourseItem(i, end) ==
    [content_type |-> "course", title |-> "bio", uuid |-> <<"course", i>>,
     course_runs |-> <<[key |-> <<"course_run", i>>, end |-> end]>>]

ProgramItem(i) ==
    [content_type |-> "program", title |-> "bio", uuid |-> <<"program", i>>,
     course_runs |-> <<>>]

RECURSIVE ItemLists(_)
ItemLists(n) ==
    IF n = 0 THEN {<<>>}
    ELSE ItemLists(n - 1) \cup
         {Append(l, item) : l \in {x \in ItemLists(n - 1) : Len(x) = n - 1},
                            item \in {CourseItem(n, e) : e \in Ends} \cup {ProgramItem(n)}}

SuggestionOutcomes ==
    {EmptyResponse, UpstreamRaises} \cup
    {[kind |-> "data", objects |-> [count |-> Len(l), results |-> l],
      fields |-> EmptyDict] : l \in ItemLists(MaxSuggestions)}

\* the loop over response["results"]
RECURSIVE SuggestionLoop(_, _, _, _)
SuggestionLoop(items, clock, courses, programs) ==
    IF items = <<>>
    THEN [raised |-> FALSE, courses |-> courses, programs |-> programs]
    ELSE LET item == Head(items)
             course == item.content_type = "course" /\ Len(courses) <= 3
             archived == is_archived_courserun(item.course_runs[1], clock)
         IN  IF course /\ archived.raised
             THEN [raised |-> TRUE, courses |-> courses, programs |-> programs]
             ELSE IF course /\ ~archived.value
             THEN SuggestionLoop(Tail(items), clock,
                      Append(courses, [name |-> item.title, org |-> "",
                                       url |-> item.course_runs[1].key]),
                      programs)
             ELSE IF item.content_type = "program" /\ Len(programs) <= 3
             THEN SuggestionLoop(Tail(items), clock, courses,
                      Append(programs, [name |-> item.title, org |-> "",
                                        url |-> item.uuid]))
             ELSE SuggestionLoop(Tail(items), clock, courses, programs)

auto_suggestion ==
    /\ handler = "auto_suggestion" /\ pc = "start"
    /\ pc' = "done"
    /\ IF ~serviceUser
       THEN \* the except clause reads 'username', which is not bound
            /\ response' = Propagates("UnboundLocalError")
            /\ UNCHANGED calls
       ELSE \E outcome \in SuggestionOutcomes :
               /\ calls' = Append(calls,
                    [resource_id |-> <<"all">>,
                     querystring |-> [q |-> PostGet(POST, "search_string", None)],
                     response |-> outcome])
               /\ response' =
                    IF outcome.kind = "raise" THEN Propagates("Exception")
                    ELSE IF outcome.kind = "empty" THEN Propagates("TypeError")
                    ELSE LET looped == SuggestionLoop(outcome.objects.results, now,
                                                      <<>>, <<>>)
                         IN  IF looped.raised THEN Propagates("ValueError")
                             ELSE HttpResponse(
                                    <<[type |-> "Course", records |-> looped.courses],
                                      [type |-> "Program", records |-> looped.programs]>>,
                                    200)
    /\ UNCHANGED <<handler, POST, serviceUser, now, size, from_, page, resource_id,
                   querystring, lst_resources, lst_results, FACET_TEMPLATE,
                   DATA_RESPONSE, field_dictionary, field_keys, merged, templates>>

----------------------------------------------------------------------------
(* facets *)

MaxLines == 2          \* lines of one facet in an upstream facet table
MaxFacetCount == 1     \* counts 0..MaxFacetCount of a line

\* a seeded term and one the template does not know
FacetTerms == {"Masters", "MicroMasters"}

FacetLineSet == {[text |-> t, count |-> c] : t \in FacetTerms, c \in 0..MaxFacetCount}

RECURSIVE LineLists(_)
LineLists(n) ==
    IF n = 0 THEN {<<>>}
    ELSE LineLists(n - 1) \cup
         {Append(l, line) : l \in {x \in LineLists(n - 1) : Len(x) = n - 1},
                            line \in FacetLineSet}

\* upstream facet tables ('fields'): facet name -> list of {text, count}
FacetTables ==
    {a @@ b : a \in {EmptyDict} \cup {("program_type" :> l) : l \in LineLists(MaxLines)},
              b \in {EmptyDict,
                     ("status" :> <<[text |-> "active", count |-> MaxFacetCount]>>)
                        @@ ("language" :> <<[text |-> "en", count |-> 1]>>)}}

FacetOutcomes ==
    {EmptyResponse, UpstreamRaises} \cup
    {[kind |-> "data", objects |-> [count |-> 0, results |-> <<>>], fields |-> f] :
        f \in FacetTables}

facets ==
    /\ handler = "facets" /\ pc = "start"
    /\ pc' = "done"
    /\ IF ~serviceUser
       THEN \* the except clause reads 'username', which is not bound
            /\ response' = Propagates("UnboundLocalError")
            /\ UNCHANGED <<calls, FACET_TEMPLATE, merged, templates>>
       ELSE \E outcome \in FacetOutcomes :
               /\ calls' = Append(calls,
                    [resource_id |-> <<"all", "/facets">>,
                     querystring |-> [is_archived |-> "false"],
                     response |-> outcome])
               /\ IF outcome.kind = "raise"
                  THEN /\ response' = Propagates("Exception")
                       /\ UNCHANGED <<FACET_TEMPLATE, merged, templates>>
                  ELSE IF outcome.kind = "empty"
                  THEN /\ response' = HttpResponse(FACET_TEMPLATE, 200)
                       /\ UNCHANGED <<FACET_TEMPLATE, merged, templates>>
                  ELSE LET facets_ == update_facets(outcome.fields, FACET_TEMPLATE) IN
                       /\ FACET_TEMPLATE' = facets_
                       /\ merged' = Append(merged, outcome.fields)
                       /\ templates' = Append(templates, FACET_TEMPLATE)
                       /\ response' = HttpResponse(facets_, 200)
    /\ UNCHANGED <<handler, POST, serviceUser, now, size, from_, page, resource_id,
                   querystring, lst_resources, lst_results, DATA_RESPONSE,
                   field_dictionary, field_keys>>

----------------------------------------------------------------------------
(* Requests *)

InitLocals ==
    /\ pc = "start"
    /\ size = 0 /\ from_ = 0 /\ page = 0
    /\ resource_id = ""
    /\ querystring = EmptyDict
    /\ lst_resources = <<>>
    /\ lst_results = <<>>
    /\ calls = <<>>
    /\ FACET_TEMPLATE = get_discovery_facet
    /\ DATA_RESPONSE = InitialDataResponse(get_discovery_facet)
    /\ response = NoResponse
    /\ field_dictionary = EmptyDict
    /\ field_keys = <<>>
    /\ merged = <<>>
    /\ templates = <<>>

RequestsOf(h) ==
    IF h = "discovery" THEN DiscoveryRequests
    ELSE IF h = "program_discovery" THEN ProgramRequests
    ELSE {("search_string" :> <<"bio">>)}

Init ==
    /\ handler \in {"discovery", "program_discovery", "auto_suggestion", "facets"}
    /\ POST \in RequestsOf(handler)
    /\ serviceUser \in BOOLEAN
    /\ now = 1
    /\ InitLocals

Next ==
    \/ DiscoveryPaginate
    \/ DiscoveryGetApi
    \/ DiscoveryScope
    \/ DiscoveryQuery
    \/ DiscoveryProcess
    \/ DiscoveryRespond
    \/ program_discovery
    \/ auto_suggestion
    \/ facets

Spec == Init /\ [][Next]_vars

----------------------------------------------------------------------------
(* Facet accumulation: the calls of update_facets on one template *)

\* the facet tables the template may have absorbed before
PriorTables ==
    {EmptyDict,
     ("program_type" :> <<[text |-> "Masters", count |-> 1],
                          [text |-> "MicroMasters", count |-> 1]>>)}

InitFacets ==
    /\ handler = "update_facets"
    /\ POST = EmptyDict
    /\ serviceUser = TRUE
    /\ now = 1
    /\ pc = "start"
    /\ size = 0 /\ from_ = 0 /\ page = 0
    /\ resource_id = ""
    /\ querystring = EmptyDict
    /\ lst_resources = <<>>
    /\ lst_results = <<>>
    /\ calls = <<>>
    /\ response = NoResponse
    /\ field_dictionary = EmptyDict
    /\ field_keys = <<>>
    /\ \E prior \in PriorTables :
          /\ merged = <<prior>>
          /\ templates = <<get_discovery_facet>>
          /\ FACET_TEMPLATE = update_facets(prior, get_discovery_facet)
          /\ DATA_RESPONSE = InitialDataResponse(FACET_TEMPLATE)

\* DATA_RESPONSE['facets'] = update_facets(res[resource_id]['fields'], FACET_TEMPLATE),
\* once per response of the fan-out
FacetMerge ==
    /\ handler = "update_facets"
    /\ Len(merged) <= Len(FanOut)
    /\ \E res_facets \in FacetTables :
          LET facets_ == update_facets(res_facets, FACET_TEMPLATE) IN
          /\ FACET_TEMPLATE' = facets_
          /\ DATA_RESPONSE' = [DATA_RESPONSE EXCEPT !.facets = facets_]
          /\ merged' = Append(merged, res_facets)
          /\ templates' = Append(templates, FACET_TEMPLATE)
    /\ UNCHANGED <<handler, pc, POST, serviceUser, now, size, from_, page, resource_id,
                   querystring, lst_resources, lst_results, calls, response,
                   field_dictionary, field_keys>>

NextFacets == FacetMerge

SpecFacets == InitFacets /\ [][NextFacets]_vars

----------------------------------------------------------------------------
(* _get_field_values *)

\* A key of request.POST, for the filter fields: its name, followed by the
\* pieces "[]" it carries ("org[]" is <<"org", "[]">>).
\* The fields course_discovery_filter_fields() lists by default.
DEFAULT_FILTER_FIELDS ==
    {<<"org">>, <<"org", "[]">>, <<"modes">>, <<"modes", "[]">>,
     <<"language">>, <<"language", "[]">>}

\* field_key.find('[]') != -1
HasMarker(field_key) == \E i \in DOMAIN field_key : field_key[i] = "[]"

\* field_key.split('[]')[0]
RECURSIVE BeforeMarker(_)
BeforeMarker(field_key) ==
    IF field_key = <<>> \/ Head(field_key) = "[]" THEN <<>>
    ELSE <<Head(field_key)>> \o BeforeMarker(Tail(field_key))

\* a value of the dict: the list getlist returns, or the single value
\* request.POST[key] returns
ListValue(l) == [list |-> TRUE, value |-> l]
SingleValue(v) == [list |-> FALSE, value |-> <<v>>]

\* the body of the loop over request.POST
FieldValue(post, field_key, dict) ==
    IF field_key \in DEFAULT_FILTER_FIELDS
    THEN IF HasMarker(field_key)
         THEN DictUpdate(dict, BeforeMarker(field_key) :> ListValue(post[field_key]))
         ELSE DictUpdate(dict, field_key :> SingleValue(Last(post[field_key])))
    ELSE dict

\* the loop, over the keys in the order the QueryDict yields them
RECURSIVE get_field_values(_, _, _)
get_field_values(post, keys, dict) ==
    IF keys = <<>> THEN dict
    ELSE get_field_values(post, Tail(keys), FieldValue(post, Head(keys), dict))

FieldKeys == {<<"org">>, <<"org", "[]">>, <<"language", "[]">>, <<"bogus_field">>}

FieldValueLists == {<<"a">>, <<"b">>, <<"a", "b">>}

FieldRequests ==
    UNION {[keys -> FieldValueLists] : keys \in SUBSET FieldKeys}

\* the orders in which a set of keys can be traversed
Orderings(S) ==
    {f \in [1..Cardinality(S) -> S] : \A i, j \in 1..Cardinality(S) : i # j => f[i] # f[j]}

InitFilter ==
    /\ handler = "course_discovery"
    /\ POST \in FieldRequests
    /\ field_keys \in Orderings(DOMAIN POST)
    /\ field_dictionary = EmptyDict
    /\ serviceUser = TRUE
    /\ now = 1
    /\ pc = "start"
    /\ size = 0 /\ from_ = 0 /\ page = 0
    /\ resource_id = ""
    /\ querystring = EmptyDict
    /\ lst_resources = <<>>
    /\ lst_results = <<>>
    /\ calls = <<>>
    /\ FACET_TEMPLATE = get_discovery_facet
    /\ DATA_RESPONSE = InitialDataResponse(get_discovery_facet)
    /\ response = NoResponse
    /\ merged = <<>>
    /\ templates = <<>>

\* one turn of the loop of _get_field_values
FieldValuesStep ==
    /\ handler = "course_discovery"
    /\ field_keys # <<>>
    /\ field_dictionary' = FieldValue(POST, Head(field_keys), field_dictionary)
    /\ field_keys' = Tail(field_keys)
    /\ UNCHANGED <<handler, pc, POST, serviceUser, now, size, from_, page, resource_id,
                   querystring, lst_resources, lst_results, calls, FACET_TEMPLATE,
                   DATA_RESPONSE, response, merged, templates>>

NextFilter == FieldValuesStep

SpecFilter == InitFilter /\ [][NextFilter]_vars

----------------------------------------------------------------------------
(* Properties of the request flows *)

\* the page size and page index the client asked for
RequestedPageSize == IF "page_size" \in DOMAIN POST THEN Last(POST["page_size"]).n ELSE 20
RequestedPageIndex == IF "page_index" \in DOMAIN POST THEN Last(POST["page_index"]).n ELSE 0

PageSizeInRange ==
    \/ "page_size" \notin DOMAIN POST
    \/ /\ Last(POST["page_size"]).num
       /\ 0 < RequestedPageSize /\ RequestedPageSize <= SEARCH_MAX_PAGE_SIZE

PageIndexInRange ==
    \/ "page_index" \notin DOMAIN POST
    \/ Last(POST["page_index"]).num /\ RequestedPageIndex >= 0

PageSizeOutOfRange ==
    /\ "page_size" \in DOMAIN POST
    /\ Last(POST["page_size"]).num
    /\ (RequestedPageSize <= 0 \/ RequestedPageSize > SEARCH_MAX_PAGE_SIZE)

\* the body is an error envelope {error: ...}
IsErrorEnvelope(resp) == resp.kind = "http" /\ "error" \in DOMAIN resp.body

\* C1: in the discovery flow, with a page size in (0, max] (supplied, or the
\* default 20) and a page index >= 0 (supplied, or the default 0), pagination
\* yields offset = pageIndex * pageSize and every upstream call carries page
\* pageIndex + 1, whether or not page_size was supplied.
C1_PageIndexHonoured ==
    (handler = "discovery" /\ pc # "start" /\ PageSizeInRange /\ PageIndexInRange)
    => /\ size = RequestedPageSize
       /\ from_ = RequestedPageIndex * RequestedPageSize
       /\ page = RequestedPageIndex + 1
       /\ \A i \in DOMAIN calls : calls[i].querystring.page = RequestedPageIndex + 1

\* C2: a supplied page size that is 0, negative or above the maximum makes
\* pagination fail, and discovery then answers with an error envelope and has
\* issued no upstream call.
C2_InvalidPageSizeEnvelope ==
    (handler = "discovery" /\ pc = "done" /\ PageSizeOutOfRange)
    => /\ process_pagination_values(POST).raised
       /\ IsErrorEnvelope(response)
       /\ calls = <<>>

\* the upstream records of the calls issued for the request
UpstreamRecords ==
    UNION {{calls[i].response.objects.results[j] :
                j \in DOMAIN calls[i].response.objects.results} : i \in DOMAIN calls}

\* the ids of the records in the result lists the client gets
ReturnedIds ==
    IF response.kind # "http" \/ response.status # 200 THEN {}
    ELSE IF handler = "discovery"
    THEN {response.body.program_results[i].id : i \in DOMAIN response.body.program_results}
         \cup
         {response.body.course_results[i].id : i \in DOMAIN response.body.course_results}
    ELSE IF handler = "program_discovery"
    THEN {response.body.results[i].id : i \in DOMAIN response.body.results}
    ELSE IF handler = "auto_suggestion"
    THEN {response.body[1].records[i].url : i \in DOMAIN response.body[1].records}
         \cup
         {response.body[2].records[i].url : i \in DOMAIN response.body[2].records}
    ELSE {}

\* C3: no result list returned by discovery or program_discovery holds a record
\* built from an upstream program whose status is not "active".
C3_OnlyActivePrograms ==
    (handler \in {"discovery", "program_discovery"} /\ pc = "done")
    => \A u \in UpstreamRecords :
          (u.content_type = "program" /\ u.status # "active") => u.uuid \notin ReturnedIds

\* the course runs the upstream returned: discovery gets course-run records,
\* auto_suggestion gets courses holding their first course run
UpstreamCourseRuns ==
    {[key |-> u.key, end |-> u.end] :
        u \in {x \in UpstreamRecords : x.content_type = "courserun"}}
    \cup
    {u.course_runs[1] : u \in {x \in UpstreamRecords : x.content_type = "course"}}

\* auto_suggestion lists four courses at most
SuggestionsFull ==
    handler = "auto_suggestion" /\ Len(response.body[1].records) = 4

\* C4: where archived filtering is requested (discovery asks is_archived=false,
\* auto_suggestion filters itself), a returned result list never holds a course
\* run whose end parses and lies strictly before now, and holds every course
\* run that has no end (in auto_suggestion: as long as its list is not full).
C4_ArchivedExcluded ==
    (/\ handler \in {"discovery", "auto_suggestion"}
     /\ pc = "done" /\ response.kind = "http" /\ response.status = 200)
    => \A run \in UpstreamCourseRuns :
          /\ (run.end.kind = "ts" /\ run.end.t < now) => run.key \notin ReturnedIds
          /\ run.end.kind = "none" => (run.key \in ReturnedIds \/ SuggestionsFull)

\* contacting the upstream failed: the service account is missing, or a query
\* call raised
UpstreamFailed ==
    \/ ~process_pagination_values(POST).raised /\ ~serviceUser
    \/ \E i \in DOMAIN calls : calls[i].response.kind = "raise"

\* C5: a discovery request during which contacting the upstream failed ends
\* with a generic error envelope and a non-success status.
C5_UpstreamFailureEnvelope ==
    (handler = "discovery" /\ pc = "done" /\ UpstreamFailed)
    => /\ IsErrorEnvelope(response)
       /\ response.status >= 400

\* the unified records of a response's record list
Normalized(results) == [i \in DOMAIN results |-> DiscoveryRecord(results[i])]

\* C6: in a fan-out over 'all' where one scope answers empty and the other
\* answers with a response, the request succeeds, the results are those of the
\* answering scope and the total is that scope's reported count.
C6_EmptyScopeSkipped ==
    (/\ handler = "discovery" /\ pc = "done" /\ Len(calls) = 2
     /\ {calls[1].response.kind, calls[2].response.kind} = {"empty", "data"})
    => LET courses == calls[1].response
           programs == calls[2].response
           answered == IF courses.kind = "data" THEN courses ELSE programs
       IN  /\ response.kind = "http" /\ response.status = 200
           /\ response.body.course_results = Normalized(courses.objects.results)
           /\ response.body.program_results = Normalized(programs.objects.results)
           /\ response.body.course_count + response.body.program_count
                 = answered.objects.count

\* C7: a discovery request that gets as far as the scope check (valid paging,
\* service account present) with a resource scope outside all / programs /
\* course_runs ends with status 404 and an error message, and no upstream
\* query call was issued.
C7_UnknownScopeError ==
    (/\ handler = "discovery" /\ pc = "done"
     /\ ~process_pagination_values(POST).raised /\ serviceUser
     /\ PostGet(POST, "resource_id", "all") \notin {"all", "programs", "course_runs"})
    => /\ response.kind = "http" /\ response.status = 404
       /\ IsErrorEnvelope(response)
       /\ calls = <<>>

----------------------------------------------------------------------------
(* Properties of _get_field_values *)

\* a key's name without its multi-value marker
Stripped(field_key) == BeforeMarker(field_key)

\* the value the filter set holds for a supplied key
ValueOf(field_key) ==
    IF HasMarker(field_key) THEN ListValue(POST[field_key])
    ELSE SingleValue(Last(POST[field_key]))

\* C8: the built filter set holds exactly the supplied keys whose stripped name
\* is in the whitelist, under the stripped name, a multi-value key with its
\* list and a scalar key with its single value; a key outside the whitelist is
\* never in it; and its content is the same for every order in which the
\* supplied keys are traversed.
C8_FilterWhitelist ==
    (handler = "course_discovery" /\ field_keys = <<>>)
    => /\ DOMAIN field_dictionary =
             {Stripped(k) : k \in {x \in DOMAIN POST : Stripped(x) \in DEFAULT_FILTER_FIELDS}}
       /\ \A name \in DOMAIN field_dictionary :
             \E k \in DOMAIN POST : Stripped(k) = name /\ field_dictionary[name] = ValueOf(k)
       /\ \A name \in DOMAIN field_dictionary : name \in DEFAULT_FILTER_FIELDS
       /\ \A order \in Orderings(DOMAIN POST) :
             get_field_values(POST, order, EmptyDict) = field_dictionary

----------------------------------------------------------------------------
(* Properties of update_facets *)

\* the template after the i-th merge
TemplateAfter(i) == IF i < Len(templates) THEN templates[i + 1] ELSE FACET_TEMPLATE

\* some merged facet table lists the term under the facet
Mentioned(name, term) ==
    \E i \in DOMAIN merged :
        /\ name \in DOMAIN merged[i]
        /\ \E j \in DOMAIN merged[i][name] : merged[i][name][j].text = term

\* C9: after any sequence of merges every seeded facet name and term is still
\* in the template, a seeded term no merged table mentions still counts 0, and
\* no merge lowered the count of a term (upstream counts being non-negative).
C9_SeededKeysKept ==
    /\ \A name \in DOMAIN get_discovery_facet :
          /\ name \in DOMAIN FACET_TEMPLATE
          /\ \A term \in DOMAIN get_discovery_facet[name] :
                /\ term \in DOMAIN FACET_TEMPLATE[name]
                /\ ~Mentioned(name, term) => FACET_TEMPLATE[name][term] = 0
    /\ \A i \in DOMAIN templates :
          \A name \in DOMAIN templates[i] :
             \A term \in DOMAIN templates[i][name] :
                /\ name \in DOMAIN TemplateAfter(i)
                /\ term \in DOMAIN TemplateAfter(i)[name]
                /\ TemplateAfter(i)[name][term] >= templates[i][name][term]

\* two merges happened: a seeded term was counted up, another was never
\* mentioned, and a term the template did not know was added
C9_Witness ==
    /\ handler = "update_facets"
    /\ Len(merged) = 3
    /\ FACET_TEMPLATE["program_type"]["Masters"] > 1
    /\ ~Mentioned("program_type", "Professional Certificate")
    /\ "MicroMasters" \in DOMAIN FACET_TEMPLATE["program_type"]
    /\ FACET_TEMPLATE["status"]["active"] > 0

\* C10: merging two upstream facet tables A then B into a template yields the
\* same term counts as merging B then A.
C10_MergeCommutes ==
    \A i \in 1..(Len(merged) - 1) :
        update_facets(merged[i], update_facets(merged[i + 1], templates[i]))
            = TemplateAfter(i + 1)

\* two different tables, both counting the same term, were merged into a
\* template that already counted it
C10_Witness ==
    /\ handler = "update_facets"
    /\ Len(merged) = 3
    /\ merged[2] # merged[3]
    /\ templates[2]["program_type"]["Masters"] > 0
    /\ "program_type" \in DOMAIN merged[2] /\ "program_type" \in DOMAIN merged[3]
    /\ \E j \in DOMAIN merged[2]["program_type"] :
          /\ merged[2]["program_type"][j].text = "Masters"
          /\ merged[2]["program_type"][j].count > 0
    /\ \E j \in DOMAIN merged[3]["program_type"] :
          /\ merged[3]["program_type"][j].text = "Masters"
          /\ merged[3]["program_type"][j].count = 0
    /\ FACET_TEMPLATE["program_type"]["Masters"] > 1

\* the sum of the counts of the lines of a facet that list the term
RECURSIVE CountsFor(_, _)
CountsFor(lines, term) ==
    IF lines = <<>> THEN 0
    ELSE (IF Head(lines).text = term THEN Head(lines).count ELSE 0)
         + CountsFor(Tail(lines), term)

\* the terms the lines of a facet list
TermsOf(lines) == {lines[j].text : j \in DOMAIN lines}

\* C11: one merge leaves, for every facet name of the template and every term,
\* the count before the merge (0 for a term not seen before) plus the sum of
\* the counts of all the lines listing the term under that name in the
\* upstream table, also when a term is listed more than once; a facet the
\* table does not have is unchanged.
C11_MergeAddsEveryLine ==
    \A i \in DOMAIN merged :
        \A name \in DOMAIN templates[i] :
            LET before == templates[i][name]
                after == TemplateAfter(i)[name]
                lines == DictGet(merged[i], name, <<>>)
            IN  /\ DOMAIN after = DOMAIN before \cup TermsOf(lines)
                /\ \A term \in DOMAIN after :
                      after[term] = DictGet(before, term, 0) + CountsFor(lines, term)
                /\ name \notin DOMAIN merged[i] => after = before

----------------------------------------------------------------------------
(* Properties of the fan-out *)

\* the request went through every upstream call and was answered
Answered == pc = "done" /\ response.kind = "http" /\ response.status = 200

\* the facet tables of the calls that were answered with a response, in the
\* order of the calls
RECURSIVE AnsweredFields(_)
AnsweredFields(log) ==
    IF log = <<>> THEN <<>>
    ELSE (IF Head(log).response.kind = "data" THEN <<Head(log).response.fields>>
          ELSE <<>>) \o AnsweredFields(Tail(log))

\* C12: an answered request with scope 'all' issued exactly two upstream calls,
\* course_runs first and programs second, the first with the resolved page
\* size and the second with a page size that is at most 4 and at most the
\* requested one, and processed the responses in that order; an answered
\* request with scope programs or course_runs issued exactly one call, with
\* the resolved page size.
C12_FanOutCalls ==
    (handler = "discovery" /\ Answered)
    => LET scope == PostGet(POST, "resource_id", "all") IN
       /\ scope = "all" =>
             /\ Len(calls) = 2
             /\ calls[1].resource_id = <<"course_runs", "/facets">>
             /\ calls[2].resource_id = <<"programs", "/facets">>
             /\ calls[1].querystring.page_size = size
             /\ calls[2].querystring.page_size <= 4
             /\ calls[2].querystring.page_size <= size
             /\ merged = AnsweredFields(calls)
       /\ scope # "all" =>
             /\ Len(calls) = 1
             /\ calls[1].resource_id = <<scope, "/facets">>
             /\ calls[1].querystring.page_size = size

====
